---- MODULE Spec2Model ----
(***************************************************************************)
(* State-machine model of src/src/spectrogram.rs (struct Spectrogram with  *)
(* new, process and draw_frame, and the helpers boost and from_piano_key). *)
(*                                                                         *)
(* Numbers.  An f32 that carries a fraction is held in fixed point: the    *)
(* real r is the integer r * FP.  Products and quotients are rescaled and  *)
(* truncated, which stands for the rounding of f32 arithmetic.  The three  *)
(* places where the code can meet a non-finite f32 (a row of one pixel     *)
(* gives 0/0, a sample rate of 0 gives f/0, a frame counter of 0 gives     *)
(* sum/0) are modelled with their IEEE outcome.  sample_rate is held in    *)
(* whole Hz.                                                               *)
(***************************************************************************)
EXTENDS Integers, Sequences, FiniteSets, TLC

---------------------------------------------------------------------------
(* Bounds of the model *)

MaxSamples == 4
MaxRow == 3

(* Program constants *)

U8Max == 255
A4Freq == 440
A4Key == 49
Semitones == 12

(* Fixed-point scale *)
FP == 2 ^ 10

(* Inputs the callers may supply *)
Powers == {2, 3, 4}
\* stereo samples <<left, right>>
Amplitudes == {<<0, FP>>, <<FP, 0 - FP>>}
Rates == {0, 2000}
Boosts == {FP}
KeyRanges == {<<1, 88>>}
RowLens == {1, MaxRow}
ChunkLens == 0..2

---------------------------------------------------------------------------
(* Arithmetic helpers *)

Max(a, b) == IF a >= b THEN a ELSE b
Min(a, b) == IF a <= b THEN a ELSE b
Abs(a) == IF a >= 0 THEN a ELSE 0 - a

\* a / b rounded toward zero, as an f32 -> integer cast rounds
TruncDiv(a, b) == IF a >= 0 THEN a \div b ELSE 0 - ((0 - a) \div b)

Pow2(n) == 2 ^ n

\* a function on 1..n as the tuple of its values (each value computed once)
Tuple(f) == f \o <<>>

RECURSIVE SqrtSearch(_, _, _)
SqrtSearch(n, lo, hi) ==
  IF lo >= hi THEN lo
  ELSE LET mid == (lo + hi + 1) \div 2
       IN IF mid * mid <= n THEN SqrtSearch(n, mid, hi)
          ELSE SqrtSearch(n, lo, mid - 1)

\* floor of the square root
ISqrt(n) == SqrtSearch(n, 0, 46340)

---------------------------------------------------------------------------
(* Complex<f32> *)

Complex(re, im) == [re |-> re, im |-> im]
CZero == Complex(0, 0)
CAdd(a, b) == Complex(a.re + b.re, a.im + b.im)
CHalf(a) == Complex(TruncDiv(a.re, 2), TruncDiv(a.im, 2))
\* the product of two fixed-point numbers, before it is scaled back
CMul(a, b) == Complex((a.re * b.re) - (a.im * b.im), (a.re * b.im) + (a.im * b.re))
CScale(a) == Complex(TruncDiv(a.re, FP), TruncDiv(a.im, FP))
\* Complex::norm
Norm(c) == ISqrt(c.re * c.re + c.im * c.im)

---------------------------------------------------------------------------
(* crate::ring::Ring: the sliding window, seen in temporal order           *)
(* (oldest first).                                                         *)

RingNew(size, v) == Tuple([k \in 1..size |-> v])
Enqueue(q, v) == IF Len(q) = 0 THEN q ELSE Tail(q) \o <<v>>
ChunksExact2(q) ==
  Tuple([j \in 1..(Len(q) \div 2) |-> <<q[2 * j - 1], q[2 * j]>>])

---------------------------------------------------------------------------
(* Spectrogram::new *)

QueueSize(buffer_size_power) == Pow2(buffer_size_power)
BufferSize(buffer_size_power) == Pow2(buffer_size_power - 1)
FreqSumLenWhole(buffer_size) == buffer_size - 1
FreqSumLen(buffer_size) == (buffer_size \div 2) - 1

---------------------------------------------------------------------------
(* Spectrogram::process, one sample *)

\* the pairwise average of lines 59-64: zip stops at the shorter side
DownsampleSliding(q, inp) ==
  Tuple([j \in 1..Len(inp) |->
           IF j + 1 <= Len(q) THEN CHalf(CAdd(q[j], q[j + 1])) ELSE inp[j]])
Downsample(q, inp) ==
  LET chunks == ChunksExact2(q)
  IN Tuple([j \in 1..Len(inp) |->
              IF j <= Len(chunks)
              THEN CHalf(CAdd(chunks[j][1], chunks[j][2]))
              ELSE inp[j]])

\* e^(-2 pi i m / 8) * FP, m = 0..7: the twiddle factors of the forward
\* transform (inverse = false) for the lengths 2, 4 and 8
Twiddle8 ==
  <<[re |-> 1024, im |-> 0], [re |-> 724, im |-> -724],
    [re |-> 0, im |-> -1024], [re |-> -724, im |-> -724],
    [re |-> -1024, im |-> 0], [re |-> -724, im |-> 724],
    [re |-> 0, im |-> 1024], [re |-> 724, im |-> 724]>>
Twiddle(m, n) == Twiddle8[((m * (8 \div n)) % 8) + 1]

\* X[k] * FP = sum_j x[j] * Twiddle(jk mod N), from term j on
RECURSIVE DftSum(_, _, _)
DftSum(inp, k, j) ==
  IF j > Len(inp) THEN CZero
  ELSE CAdd(CMul(inp[j], Twiddle((k * (j - 1)) % Len(inp), Len(inp))),
            DftSum(inp, k, j + 1))

\* FFT::process of line 66: X[k] = sum_j x[j] e^(-2 pi i jk/N)
FftProcess(inp) ==
  Tuple([k \in 1..Len(inp) |-> CScale(DftSum(inp, k - 1, 1))])

\* lines 68-72: output[1 .. len/2] zipped with freq_sum
AccumulateFromDc(sum, out) ==
  Tuple([s \in 1..Len(sum) |->
           IF s <= (Len(out) \div 2) - 1
           THEN sum[s] + (2 * Norm(out[s])) \div Len(out)
           ELSE sum[s]])
Accumulate(sum, out) ==
  Tuple([s \in 1..Len(sum) |->
           IF s <= (Len(out) \div 2) - 1
           THEN sum[s] + (2 * Norm(out[s + 1])) \div Len(out)
           ELSE sum[s]])

\* lines 76-77
SilenceLeftOnly(sample) == [left |-> 0, right |-> sample.right]
Silence(sample) == [left |-> 0, right |-> 0]

\* line 54
RateUnhalved(rate) == rate
HalfRate(rate) == rate \div 2


\* lines 56-78 for one sample; pushed, hist and transforms are history
\* variables (what was pushed since construction, the spectra and the number
\* of transforms since the last reset)
ProcessSample(e, sample) ==
  LET q1 == Enqueue(e.queue, Complex(sample.left, 0))
      in1 == Downsample(q1, e.input)
      out1 == FftProcess(in1)
  IN [queue |-> q1,
      input |-> in1,
      output |-> out1,
      freq_sum |-> Accumulate(e.freq_sum, out1),
      freq_n |-> e.freq_n + 1,
      pushed |-> Append(e.pushed, sample.left),
      hist |-> Append(e.hist, out1),
      transforms |-> e.transforms + 1]

RECURSIVE ProcessData(_, _, _)
ProcessData(e, data, k) ==
  IF k > Len(data) THEN e
  ELSE ProcessData(ProcessSample(e, data[k]), data, k + 1)

---------------------------------------------------------------------------
(* f32 values on the way from a pixel to a bin index: finite (fixed        *)
(* point), NaN or +infinity                                                *)

Fin(v) == [kind |-> "fin", v |-> v]
NaN == [kind |-> "nan", v |-> 0]
PosInf == [kind |-> "inf", v |-> 0]

\* line 91: pixel.x as f32 / (line.len - 1) as f32
PixelX(x, len) ==
  IF len - 1 = 0 THEN (IF x = 0 THEN NaN ELSE PosInf)
  ELSE Fin((x * FP) \div (len - 1))

\* line 93: x * keys + self.from_key - 0.5, keys > 0
Pitch(x, keys, fromKey) ==
  IF x.kind = "fin"
  THEN Fin((x.v * keys) + (fromKey * FP) - (FP \div 2))
  ELSE x

\* 2^(j/24) * FP
Pow2Frac == <<1024, 1054, 1085, 1117, 1149, 1183, 1218, 1253,
              1290, 1328, 1367, 1407, 1448, 1491, 1534, 1579,
              1625, 1673, 1722, 1773, 1825, 1878, 1933, 1990>>

\* 2^((n - 49) / 12) * 440, the exponent taken to the half semitone below
from_piano_key(n) ==
  IF n.kind = "nan" THEN NaN
  ELSE IF n.kind = "inf" THEN PosInf
  ELSE LET h == ((n.v - A4Key * FP) * 2) \div FP
           oct == h \div (2 * Semitones)
           frac == Pow2Frac[(h % (2 * Semitones)) + 1]
       IN Fin(IF oct >= 0 THEN A4Freq * frac * Pow2(oct)
              ELSE (A4Freq * frac) \div Pow2(0 - oct))

\* lines 96-97: (f * len / sample_rate - 1.0).max(0.0).min(sums - 1.0);
\* f32::max and f32::min return the other operand when one is NaN
BinIndex(f, len, rate, sums) ==
  LET raw == IF f.kind = "nan" THEN NaN
             ELSE IF f.kind = "inf" \/ rate = 0 THEN PosInf
             ELSE Fin(((f.v * len) \div rate) - FP)
      lo == IF raw.kind = "nan" THEN Fin(0)
            ELSE IF raw.kind = "inf" THEN PosInf
            ELSE Fin(Max(raw.v, 0))
      top == (sums - 1) * FP
  IN IF lo.kind = "inf" THEN top ELSE Min(lo.v, top)

\* `as usize` of a finite f32: toward zero, negative values give 0 (the
\* cast saturates); on an empty freq_sum every index is out of bounds
AsUsize(i) == IF i <= 0 THEN 0 ELSE i \div FP
Floor(i) == (i \div FP) * FP
Ceil(i) == (0 - ((0 - i) \div FP)) * FP
Fract(i) == i - TruncDiv(i, FP) * FP

\* line 125-127
Boost(value, by) ==
  TruncDiv((((by + FP) * value) \div FP) * FP, ((by * value) \div FP) + FP)

\* line 108: `as u8` of (1.0 - v) * 255.0, given in fixed point: the
\* fraction is dropped, and the cast saturates at 0 and 255
ToU8Round(y) ==
  IF y < 0 THEN 0 ELSE Min((y + (FP \div 2)) \div FP, U8Max)
ToU8(y) ==
  IF y < 0 THEN 0 ELSE Min(y \div FP, U8Max)


---------------------------------------------------------------------------
(* State *)

VARIABLES
  power,        \* buffer_size_power given to new
  from_key, to_key, boost, sample_rate,
  queue, input, output, freq_sum, freq_n,
  chunk,        \* the caller's audio samples, as the last process left them
  line,         \* the caller's pixel row
  panicked,     \* a call has panicked (index out of bounds)
  \* history variables
  lastOp,       \* "new", "process" or "draw"
  pre,          \* what the last call was given and found
  writes,       \* pixels written by the last call
  divs,         \* divisions by freq_n made by the last call
  drawn,        \* per pixel handled by the last draw_frame: what it computed
  pushed,       \* left amplitudes pushed since construction
  hist,         \* spectrum outputs since the last reset
  transforms,   \* transforms run since the last reset
  lastRate,     \* sample rate of the last processed chunk, -1 when none
  accRates      \* sample rates of the chunks accumulated since the last reset

vars == <<power, from_key, to_key, boost, sample_rate, queue, input, output,
          freq_sum, freq_n, chunk, line, panicked, lastOp, pre, writes, divs,
          drawn, pushed, hist, transforms, lastRate, accRates>>

Sample(l, r) == [left |-> l, right |-> r]
Samples == {Sample(a[1], a[2]) : a \in Amplitudes}

\* crate::audio::Buffer
Datas == UNION {[1..n -> Samples] : n \in ChunkLens}
Buffers == {[data |-> d, sample_rate |-> r] : d \in Datas, r \in Rates}
NoBuffer == [data |-> <<>>, sample_rate |-> 0]

Snapshot(buffer) ==
  [op |-> lastOp, freq_n |-> freq_n, freq_sum |-> freq_sum,
   sample_rate |-> sample_rate, queue |-> queue, line |-> line,
   accRates |-> accRates, buffer |-> buffer]

\* Spectrogram::new
Init ==
  \E p \in Powers, kr \in KeyRanges, by \in Boosts, len \in RowLens :
    /\ power = p
    /\ from_key = kr[1]
    /\ to_key = kr[2]
    /\ boost = by
    /\ sample_rate = 1
    /\ queue = RingNew(QueueSize(p), CZero)
    /\ input = [k \in 1..BufferSize(p) |-> CZero]
    /\ output = [k \in 1..BufferSize(p) |-> CZero]
    /\ freq_sum = [k \in 1..FreqSumLen(BufferSize(p)) |-> 0]
    /\ freq_n = 0
    /\ chunk = <<>>
    /\ line = [k \in 1..len |-> [r |-> 10, g |-> 20, b |-> 30]]
    /\ panicked = FALSE
    /\ lastOp = "new"
    /\ pre = [op |-> "none", freq_n |-> 0, freq_sum |-> <<>>,
              sample_rate |-> 1, queue |-> <<>>, line |-> <<>>,
              accRates |-> {}, buffer |-> NoBuffer]
    /\ writes = 0
    /\ divs = 0
    /\ drawn = <<>>
    /\ pushed = <<>>
    /\ hist = <<>>
    /\ transforms = 0
    /\ lastRate = 0 - 1
    /\ accRates = {}

Engine ==
  [queue |-> queue, input |-> input, output |-> output,
   freq_sum |-> freq_sum, freq_n |-> freq_n, pushed |-> pushed,
   hist |-> hist, transforms |-> transforms]

\* Spectrogram::process
Process(buffer) ==
  /\ ~panicked
  /\ Len(pushed) + Len(buffer.data) <= MaxSamples
  /\ \E e \in {ProcessData(Engine, buffer.data, 1)} :
        /\ sample_rate' = HalfRate(buffer.sample_rate)
        /\ queue' = e.queue
        /\ input' = e.input
        /\ output' = e.output
        /\ freq_sum' = e.freq_sum
        /\ freq_n' = e.freq_n
        /\ pushed' = e.pushed
        /\ hist' = e.hist
        /\ transforms' = e.transforms
  /\ chunk' = [k \in 1..Len(buffer.data) |-> Silence(buffer.data[k])]
  /\ lastOp' = "process"
  /\ pre' = Snapshot(buffer)
  /\ writes' = 0
  /\ divs' = 0
  /\ drawn' = <<>>
  /\ lastRate' = buffer.sample_rate
  /\ accRates' = IF Len(buffer.data) > 0
                 THEN accRates \cup {buffer.sample_rate} ELSE accRates
  /\ UNCHANGED <<power, from_key, to_key, boost, line, panicked>>

\* lines 84-86
EarlyReturnNever(n) == FALSE
EarlyReturn(n) == n = 0

\* lines 91-108 for the pixel at position x of a row of len pixels
Pixel(x, len) ==
  LET keys == to_key - from_key + 1
      f == from_piano_key(Pitch(PixelX(x, len), keys, from_key))
      i == BinIndex(f, Len(output), sample_rate, Len(freq_sum))
      i0 == AsUsize(Floor(i))
      i1 == AsUsize(Ceil(i))
      di == Fract(i)
      oob == i0 >= Len(freq_sum) \/ i1 >= Len(freq_sum)
      \* x / 0.0 is NaN or infinite, v is then NaN or infinite, and the
      \* cast of (1.0 - v) * 255.0 gives 0
      vnan == freq_n = 0
      v0 == IF oob \/ vnan THEN 0 ELSE freq_sum[i0 + 1] \div freq_n
      v1 == IF oob \/ vnan THEN 0 ELSE freq_sum[i1 + 1] \div freq_n
      v == Boost(((v0 * (FP - di)) + (v1 * di)) \div FP, boost)
  IN [i |-> i, i0 |-> i0, i1 |-> i1, oob |-> oob, rate |-> sample_rate,
      v |-> v, vnan |-> vnan,
      c |-> IF vnan THEN 0 ELSE ToU8((FP - v) * U8Max)]

Pixels(len) == Tuple([k \in 1..len |-> Pixel(k - 1, len)])

\* the first pixel whose index is out of bounds (there the indexing of
\* lines 103-104 panics), Len(px) + 1 when there is none
FirstOutOfBounds(px) ==
  LET bad == {k \in 1..Len(px) : px[k].oob}
  IN IF bad = {} THEN Len(px) + 1
     ELSE CHOOSE k \in bad : \A k2 \in bad : k <= k2

\* Spectrogram::draw_frame, on the caller's row
DrawFrame ==
  /\ ~panicked
  /\ lastOp' = "draw"
  /\ pre' = Snapshot(NoBuffer)
  /\ IF EarlyReturn(freq_n)
     THEN /\ writes' = 0
          /\ divs' = 0
          /\ drawn' = <<>>
          /\ UNCHANGED <<line, freq_sum, freq_n, hist, transforms, panicked,
                         accRates>>
     ELSE \E px \in {Pixels(Len(line))} :
          \E stop \in {FirstOutOfBounds(px)} :
             /\ line' = [k \in 1..Len(line) |->
                           IF k < stop
                           THEN [r |-> px[k].c, g |-> px[k].c, b |-> px[k].c]
                           ELSE line[k]]
             /\ writes' = stop - 1
             /\ divs' = 2 * (stop - 1)
             /\ drawn' = SubSeq(px, 1, Min(stop, Len(line)))
             /\ panicked' = (stop <= Len(line))
             /\ IF stop > Len(line)
                THEN /\ freq_n' = 0
                     /\ freq_sum' = [k \in 1..Len(freq_sum) |-> 0]
                     /\ hist' = <<>>
                     /\ transforms' = 0
                     /\ accRates' = {}
                ELSE UNCHANGED <<freq_sum, freq_n, hist, transforms, accRates>>
  /\ UNCHANGED <<power, from_key, to_key, boost, sample_rate, queue, input,
                 output, chunk, pushed, lastRate>>

Next ==
  \/ \E buffer \in Buffers : Process(buffer)
  \/ DrawFrame

Spec == Init /\ [][Next]_vars


---------------------------------------------------------------------------
(* Claims *)

AllZero(seq) == \A k \in 1..Len(seq) : seq[k] = 0
Capacity == QueueSize(power)

\* C1: after process(chunk) every sample of the chunk has left amplitude 0
\* and right amplitude 0, whatever the chunk and the engine state were.
C1_ChunkSilenced ==
  lastOp = "process" =>
    /\ Len(chunk) = Len(pre.buffer.data)
    /\ \A k \in 1..Len(chunk) : chunk[k].left = 0 /\ chunk[k].right = 0

C1_Witness ==
  /\ lastOp = "process"
  /\ Len(chunk) = 2
  /\ pre.freq_n > 0
  /\ \E k \in 1..Len(chunk) :
       pre.buffer.data[k].left # 0 /\ pre.buffer.data[k].right # 0

\* C2: a draw made while the frame counter is 0 writes no pixel, divides
\* nothing by the frame counter, returns, and leaves the accumulator, the
\* frame counter, the sliding window and the sample rate as they were.
C2_ZeroFrameDrawIsNoOp ==
  (lastOp = "draw" /\ pre.freq_n = 0) =>
    /\ writes = 0
    /\ divs = 0
    /\ ~panicked
    /\ line = pre.line
    /\ freq_sum = pre.freq_sum
    /\ freq_n = 0
    /\ queue = pre.queue
    /\ sample_rate = pre.sample_rate

C2_Witness ==
  /\ lastOp = "draw"
  /\ pre.op = "draw"
  /\ pre.freq_n = 0
  /\ pushed # <<>>
  /\ \E k \in 1..Len(line) : line[k].r = line[k].g

\* C3: after a draw made while the frame counter is greater than 0 every
\* pixel of the row has been written with equal R, G and B, every
\* accumulator slot is 0 and the frame counter is 0; no other operation
\* resets the accumulator or the counter.
C3_DrawWritesRowAndResets ==
  /\ (lastOp = "draw" /\ pre.freq_n > 0) =>
       /\ writes = Len(line)
       /\ \A k \in 1..Len(line) : line[k].r = line[k].g /\ line[k].g = line[k].b
       /\ AllZero(freq_sum)
       /\ freq_n = 0
  /\ lastOp = "process" =>
       /\ freq_n >= pre.freq_n
       /\ \A s \in 1..Len(freq_sum) : freq_sum[s] >= pre.freq_sum[s]

\* C4: when every sample processed since construction had left amplitude 0
\* (at least one processed), draw writes 255 to R, G and B of every pixel.
C4_ZeroSignalDrawsWhite ==
  (lastOp = "draw" /\ pre.freq_n > 0 /\ AllZero(pushed)) =>
    /\ writes = Len(line)
    /\ \A k \in 1..Len(line) :
         line[k] = [r |-> U8Max, g |-> U8Max, b |-> U8Max]

\* C5: after every process the sample rate is half the chunk's rate, also
\* for an empty chunk; draw never changes it, so a draw that writes pixels
\* maps frequency to bin with half the rate of the last processed chunk.
C5_RateIsHalfOfLastChunk ==
  /\ lastRate >= 0 => sample_rate * 2 = lastRate
  /\ lastOp = "draw" =>
       /\ sample_rate = pre.sample_rate
       /\ \A k \in 1..Len(drawn) : drawn[k].rate * 2 = lastRate

C5_Witness ==
  /\ lastOp = "draw"
  /\ writes > 0
  /\ pre.op = "process"
  /\ pre.freq_n > 0
  /\ \E r \in pre.accRates : r # lastRate

\* C6: for bufferSizePower >= 2 both accumulator indices floor(i) and
\* ceil(i) that draw reads lie in [0, accumulatorLength - 1]; draw never
\* reads out of bounds and never fails.
C6_IndicesInBounds ==
  /\ ~panicked
  /\ \A k \in 1..Len(drawn) :
       /\ drawn[k].i0 \in 0..(Len(freq_sum) - 1)
       /\ drawn[k].i1 \in 0..(Len(freq_sum) - 1)

\* The panic of C6 needs an empty accumulator, which only
\* buffer_size_power = 2 gives.
PanicOnlyWithEmptyAccumulator ==
  panicked => (Len(freq_sum) = 0 /\ power = 2)

\* the sliding window in temporal order, from what was pushed
Window ==
  IF Len(pushed) >= Capacity
  THEN SubSeq(pushed, Len(pushed) - Capacity + 1, Len(pushed))
  ELSE [k \in 1..(Capacity - Len(pushed)) |-> 0] \o pushed

RECURSIVE SumOverHist(_, _)
SumOverHist(s, t) ==
  IF t > Len(hist) THEN 0
  ELSE ((2 * Norm(hist[t][s + 1])) \div (Capacity \div 2)) + SumOverHist(s, t + 1)

\* C8: the frame counter is the number of samples processed since the last
\* reset, one transform was run per such sample, and accumulator slot i is
\* non-negative and is the sum over those samples of
\* 2 * |spectrum_output[i+1]| / (capacity/2).
C8_AccumulatorIsSumOfMagnitudes ==
  /\ freq_n = Len(hist)
  /\ transforms = freq_n
  /\ \A s \in 1..Len(freq_sum) :
       /\ freq_sum[s] >= 0
       /\ freq_sum[s] = SumOverHist(s, 1)

C8_Witness ==
  /\ freq_n >= 2
  /\ Len(pushed) > Len(hist)
  /\ Len(freq_sum) >= 2
  /\ \E s \in 1..Len(freq_sum) : freq_sum[s] > 0
  /\ \E s, t \in 1..Len(freq_sum) : freq_sum[s] # freq_sum[t]

\* C9 as stated: the accumulator has length capacity/2 - 1, the downsampled
\* input and the spectrum output have length capacity/2.
C9_AccumulatorLengthHalfCapacity ==
  /\ Len(freq_sum) = (Capacity \div 2) - 1
  /\ Len(input) = Capacity \div 2
  /\ Len(output) = Capacity \div 2

\* C9, amended: the accumulator has length capacity/4 - 1 (half the
\* transform length, less one), the downsampled input and the spectrum
\* output have length capacity/2, in every reachable state.
C9_AccumulatorLengthQuarterCapacity ==
  /\ Len(freq_sum) = (Capacity \div 4) - 1
  /\ Len(input) = Capacity \div 2
  /\ Len(output) = Capacity \div 2

C9_Witness ==
  /\ lastOp = "process"
  /\ Len(pushed) > Len(hist)
  /\ freq_n > 0
  /\ Len(freq_sum) = 3

\* C10 as stated: for a written pixel with v in [0,1], the value written to
\* R, G and B is the integer nearest to (1 - v) * 255.
C10_PixelIsRounded ==
  lastOp = "draw" =>
    \A k \in 1..writes :
      (~drawn[k].vnan /\ drawn[k].v >= 0 /\ drawn[k].v <= FP) =>
        /\ line[k] = [r |-> drawn[k].c, g |-> drawn[k].c, b |-> drawn[k].c]
        /\ 2 * Abs((line[k].r * FP) - ((FP - drawn[k].v) * U8Max)) <= FP

\* C10, amended: for a written pixel with v in [0,1], the value written to
\* R, G and B is (1 - v) * 255 with its fraction dropped (the floor).
C10_PixelIsTruncated ==
  lastOp = "draw" =>
    \A k \in 1..writes :
      (~drawn[k].vnan /\ drawn[k].v >= 0 /\ drawn[k].v <= FP) =>
        /\ line[k] = [r |-> drawn[k].c, g |-> drawn[k].c, b |-> drawn[k].c]
        /\ line[k].r * FP <= (FP - drawn[k].v) * U8Max
        /\ (FP - drawn[k].v) * U8Max < (line[k].r + 1) * FP

C10_Witness ==
  /\ lastOp = "draw"
  /\ \E k \in 1..writes :
       /\ drawn[k].v > 0
       /\ drawn[k].v < FP
       /\ ((FP - drawn[k].v) * U8Max) % FP > FP \div 2
       /\ drawn[k].i0 # drawn[k].i1

====
